---- MODULE Spec2Model ----
(***************************************************************************)
(* The Raiden monitoring service.                                          *)
(*                                                                         *)
(* Part I models monitoring_service/server.py (class MonitoringService):   *)
(* the token-network registry callback, the channel-event dispatcher and   *)
(* its three handlers, the off-chain message callback, the task list and   *)
(* the main loop that reaps completed tasks.  The greenlets it starts      *)
(* (StoreMonitorRequest, OnChannelClose, OnChannelSettle) live in          *)
(* monitoring_service/tasks.py, which is not part of the sources at hand:  *)
(* their bodies are modelled from the specification.                       *)
(***************************************************************************)
EXTENDS Integers, Sequences, FiniteSets, TLC

(* ------------------------------ bounds --------------------------------- *)
MaxNonce == 2
MaxBlock == 2
MaxTasks == 2

Channels == {1}
\* the token networks the registry announces: one in the runs of Spec, two (with the
\* same channel numbers in use in both) in the runs of SpecFeed
TokenNetworks == {"TN1"}
AllTokenNetworks == {"TN1", "TN2"}
SettleTimeouts == {2}
Nonces == 1..MaxNonce
Blocks == 0..MaxBlock
ChannelKeys == AllTokenNetworks \X Channels

(* ------------------------------ state ---------------------------------- *)
VARIABLES
    \* MonitoringService fields (server.py 74..102)
    token_networks,             \* self.token_networks: Set[Address]
    token_network_listeners,    \* self.token_network_listeners: List[BlockchainListener]
    registry_listener,          \* self.token_network_registry_listener: "created" | "started" | "stopped"
    open_channels,              \* self.open_channels: Set[int]
    monitor_requests,           \* self.state_db.monitor_requests: channel_id -> stored request
    task_list,                  \* self.task_list: List[gevent.Greenlet]
    stop_event,                 \* self.stop_event
    pc,                         \* position of _run: "created" | "check" | "wait" | "exited"
    \* the environment and the record of what the service did (history)
    block,                      \* number of the confirmed block whose logs are being delivered
    chain,                      \* per (token network, channel id): the on-chain facts delivered so far
    monitor_calls,              \* monitor(...) submissions made so far
    claim_calls,                \* claimReward(...) submissions made so far
    last_event,                 \* the log a listener handed over in the step just taken
    \* Part II: the two services of test_crash and the chain they read
    mock_chain,                 \* mockchain(events): the events of block 1, 2, ...
    stable_ms,                  \* the service that is never re-created
    crashy_ms,                  \* the service re-created from its database
    \* Part III: the logs on chain and how far each listener has come
    chain_log,                  \* the logs of all contracts up to the head of the node, in
                                \* canonical order
    polled,                     \* per contract: the position its listener has handled up to
    handled,                    \* the positions of the logs in the order they were handled
    \* construction (__init__) and the caller of wait_tasks
    state_db,                   \* what the state db holds about itself: is_initialized(),
                                \* chain_id(), server_address(), monitoring_contract_address()
    config,                     \* the arguments of __init__ and what the node reports
    constructed,                \* how __init__ ended: "no" (not run yet) | "yes" | the exception
    wait_pc                     \* position of a caller of wait_tasks: "idle" | "waiting" | "returned"

serverVars == <<token_networks, token_network_listeners, registry_listener, open_channels,
                monitor_requests, task_list, stop_event, pc>>
envVars == <<block, chain, monitor_calls, claim_calls>>
crashVars == <<mock_chain, stable_ms, crashy_ms>>
listenerVars == <<chain_log, polled, handled>>
setupVars == <<state_db, config, constructed>>

\* state: none -> opened -> closed -> settled; nonce: the nonce the contract holds for
\* the closing participant's balance proof (0 at close, raised by every
\* NonClosingBalanceProofUpdated); request_at_close: the nonce of the request that was
\* stored when ChannelClosed was handled (0: none was stored)
NoChannel == [state |-> "none", settle_timeout |-> 0, closing_block |-> -1,
              nonce |-> 0, request_at_close |-> 0]
NoRequest == [channel_identifier |-> 0, token_network_address |-> "none", nonce |-> 0]

MonitorRequests ==
    [channel_identifier : Channels, token_network_address : TokenNetworks, nonce : Nonces]
Messages ==
    {[type |-> "MonitorRequest", channel_identifier |-> m.channel_identifier,
      token_network_address |-> m.token_network_address, nonce |-> m.nonce] : m \in MonitorRequests}
    \cup {[type |-> "Unknown", channel_identifier |-> 0, token_network_address |-> "none",
           nonce |-> 0]}
EventNames == {"ChannelOpened", "ChannelClosed", "NonClosingBalanceProofUpdated",
               "ChannelSettled"}
ChannelEvents ==
    [event : EventNames, address : TokenNetworks, channel_identifier : Channels,
     settle_timeout : SettleTimeouts, nonce : Nonces]
NoEvent == [event |-> "none", address |-> "none", channel_identifier |-> 0,
            settle_timeout |-> 0, nonce |-> 0]
RegistryEvent(token_network_address) ==
    [event |-> "TokenNetworkCreated", address |-> token_network_address,
     channel_identifier |-> 0, settle_timeout |-> 0, nonce |-> 0]

(* monitor_fraction 0.8 of the settle timeout, integer floor *)
MonitorDelay(settle_timeout) == (settle_timeout * 4) \div 5

ServerInit ==
    /\ token_networks = {}
    /\ token_network_listeners = <<>>
    /\ registry_listener = "created"
    /\ open_channels = {}
    /\ monitor_requests = [c \in Channels |-> NoRequest]
    /\ task_list = <<>>
    /\ stop_event = FALSE
    /\ pc = "created"
    /\ block = 0
    /\ chain = [k \in ChannelKeys |-> NoChannel]
    /\ monitor_calls = {}
    /\ claim_calls = {}
    /\ last_event = NoEvent

(* ------------------------------ tasks ---------------------------------- *)
Task(kind, monitor_request) ==
    [kind |-> kind,
     monitor_request |-> [channel_identifier |-> monitor_request.channel_identifier,
                          token_network_address |-> monitor_request.token_network_address,
                          nonce |-> monitor_request.nonce],
     done |-> FALSE]

\* start_task: the greenlet is started at once and appended to task_list
start_task(task) ==
    /\ Len(task_list) < MaxTasks
    /\ task_list' = Append(task_list, task)

(* ---------------------- token network registry ------------------------- *)
handle_token_network_created_unguarded(token_network_address, event_block_number) ==
    /\ token_network_listeners' =
           Append(token_network_listeners,
                  [address |-> token_network_address,
                   sync_start_block |-> event_block_number,
                   required_confirmations |-> config.required_confirmations,
                   running |-> TRUE])
    /\ token_networks' = token_networks \cup {token_network_address}

handle_token_network_created_unconfirmed(token_network_address, event_block_number) ==
    IF token_network_address \notin token_networks
    THEN /\ token_network_listeners' =
                Append(token_network_listeners,
                       [address |-> token_network_address,
                        sync_start_block |-> event_block_number,
                        required_confirmations |-> 0,
                        running |-> TRUE])
         /\ token_networks' = token_networks \cup {token_network_address}
    ELSE UNCHANGED <<token_networks, token_network_listeners>>

\* 155: every listener is built with the confirmation depth of the service
handle_token_network_created(token_network_address, event_block_number) ==
    IF token_network_address \notin token_networks
    THEN /\ token_network_listeners' =
                Append(token_network_listeners,
                       [address |-> token_network_address,
                        sync_start_block |-> event_block_number,
                        required_confirmations |-> config.required_confirmations,
                        running |-> TRUE])
         /\ token_networks' = token_networks \cup {token_network_address}
    ELSE UNCHANGED <<token_networks, token_network_listeners>>

(* -------------------------- channel events ----------------------------- *)
on_channel_open(event) ==
    /\ open_channels' = open_channels \cup {event.channel_identifier}
    /\ UNCHANGED <<monitor_requests, task_list>>

\* the balance proof built from the closing transaction (213..221) is never read
on_channel_close(event) ==
    LET channel_id == event.channel_identifier IN
    IF monitor_requests[channel_id] = NoRequest
    THEN UNCHANGED <<open_channels, monitor_requests, task_list>>
    ELSE /\ start_task(Task("OnChannelClose", monitor_requests[channel_id]))
         /\ open_channels' = open_channels \ {channel_id}
         /\ UNCHANGED monitor_requests

on_channel_settled(event) ==
    LET channel_id == event.channel_identifier IN
    IF monitor_requests[channel_id] = NoRequest
    THEN UNCHANGED <<open_channels, monitor_requests, task_list>>
    ELSE /\ start_task(Task("OnChannelSettle", monitor_requests[channel_id]))
         /\ monitor_requests' = [monitor_requests EXCEPT ![channel_id] = NoRequest]
         /\ UNCHANGED open_channels

on_channel_event_closes_by_default(event) ==
    IF event.event = "ChannelOpened" THEN on_channel_open(event)
    ELSE IF event.event = "ChannelSettled" THEN on_channel_settled(event)
    ELSE on_channel_close(event)

on_channel_event(event) ==
    IF event.event = "ChannelOpened" THEN on_channel_open(event)
    ELSE IF event.event = "ChannelClosed" THEN on_channel_close(event)
    ELSE IF event.event = "ChannelSettled" THEN on_channel_settled(event)
    ELSE UNCHANGED <<open_channels, monitor_requests, task_list>>

(* ------------------------ off-chain messages --------------------------- *)
\* on_monitor_request writing the request into the state db itself, unconditionally
on_monitor_request_stores(monitor_request) ==
    LET channel_id == monitor_request.channel_identifier IN
    IF channel_id \notin open_channels
    THEN UNCHANGED <<open_channels, monitor_requests, task_list>>
    ELSE /\ monitor_requests' =
               [monitor_requests EXCEPT ![channel_id] =
                   [channel_identifier |-> channel_id,
                    token_network_address |-> monitor_request.token_network_address,
                    nonce |-> monitor_request.nonce]]
         /\ UNCHANGED <<open_channels, task_list>>

\* on_monitor_request submitting the request at once when the channel is no longer open
on_monitor_request_submits(monitor_request) ==
    LET channel_id == monitor_request.channel_identifier IN
    IF channel_id \notin open_channels
    THEN /\ start_task(Task("OnChannelClose", monitor_request))
         /\ UNCHANGED <<open_channels, monitor_requests>>
    ELSE /\ start_task(Task("StoreMonitorRequest", monitor_request))
         /\ UNCHANGED <<open_channels, monitor_requests>>

on_monitor_request(monitor_request) ==
    LET channel_id == monitor_request.channel_identifier IN
    IF channel_id \notin open_channels
    THEN UNCHANGED <<open_channels, monitor_requests, task_list>>
    ELSE /\ start_task(Task("StoreMonitorRequest", monitor_request))
         /\ UNCHANGED <<open_channels, monitor_requests>>

on_message_event(message) ==
    IF message.type = "MonitorRequest"
    THEN on_monitor_request(message)
    ELSE UNCHANGED <<open_channels, monitor_requests, task_list>>

(* ----------------- the greenlets of monitoring_service.tasks ----------- *)
\* StoreMonitorRequest: validate, then upsert; only a strictly higher nonce
\* supersedes the request stored under the same key.
StoreMonitorRequest_run(task) ==
    LET mr == task.monitor_request
        stored == monitor_requests[mr.channel_identifier] IN
    /\ monitor_requests' =
          IF mr.nonce > stored.nonce
          THEN [monitor_requests EXCEPT ![mr.channel_identifier] = mr]
          ELSE monitor_requests
    /\ UNCHANGED <<monitor_calls, claim_calls>>

\* OnChannelClose: submit monitor(...) with the request the task was built with
OnChannelClose_run(task) ==
    LET mr == task.monitor_request
        key == <<mr.token_network_address, mr.channel_identifier>> IN
    /\ monitor_calls' = monitor_calls \cup
          {[channel_identifier |-> mr.channel_identifier,
            token_network_address |-> mr.token_network_address,
            nonce |-> mr.nonce,
            block |-> block,
            chain_state |-> chain[key].state,
            chain_nonce |-> chain[key].nonce]}
    /\ UNCHANGED <<monitor_requests, claim_calls>>

\* OnChannelSettle: submit claimReward(...)
OnChannelSettle_run(task) ==
    LET mr == task.monitor_request IN
    /\ claim_calls' = claim_calls \cup
          {[channel_identifier |-> mr.channel_identifier,
            token_network_address |-> mr.token_network_address]}
    /\ UNCHANGED <<monitor_requests, monitor_calls>>

RunTaskAt(i) ==
        /\ i \in 1..Len(task_list)
        /\ ~task_list[i].done
        /\ IF task_list[i].kind = "StoreMonitorRequest" THEN StoreMonitorRequest_run(task_list[i])
           ELSE IF task_list[i].kind = "OnChannelClose" THEN OnChannelClose_run(task_list[i])
           ELSE OnChannelSettle_run(task_list[i])
        /\ task_list' = [task_list EXCEPT ![i].done = TRUE]
        /\ last_event' = NoEvent
        /\ UNCHANGED <<token_networks, token_network_listeners, registry_listener,
                       open_channels, stop_event, pc, block, chain, crashVars, listenerVars, setupVars, wait_pc>>

\* a started greenlet runs when the hub switches to it
RunTask == \E i \in 1..Len(task_list) : RunTaskAt(i)

(* ------------------------------ _run / stop ---------------------------- *)
RemoveAt(seq, i) == SubSeq(seq, 1, i - 1) \o SubSeq(seq, i + 1, Len(seq))

\* _run 170..172: transport and registry listener are started
Start ==
    /\ pc = "created"
    /\ pc' = "check"
    /\ registry_listener' = "started"
    /\ last_event' = NoEvent
    /\ UNCHANGED <<token_networks, token_network_listeners, open_channels, monitor_requests,
                   task_list, stop_event, envVars, crashVars, listenerVars, setupVars, wait_pc>>

\* _run 175: the loop condition
LoopCheck ==
    /\ pc = "check"
    /\ pc' = IF stop_event THEN "exited" ELSE "wait"
    /\ last_event' = NoEvent
    /\ UNCHANGED <<token_networks, token_network_listeners, registry_listener, open_channels,
                   monitor_requests, task_list, stop_event, envVars, crashVars, listenerVars, setupVars, wait_pc>>

\* _run 176..182: gevent.wait(count=1) hands back one completed task, which is
\* removed; with none completed in time the loop sleeps and continues
LoopWait ==
    /\ pc = "wait"
    /\ pc' = "check"
    /\ IF \E i \in 1..Len(task_list) : task_list[i].done
       THEN \E i \in 1..Len(task_list) :
                /\ task_list[i].done
                /\ task_list' = RemoveAt(task_list, i)
       ELSE UNCHANGED task_list
    /\ last_event' = NoEvent
    /\ UNCHANGED <<token_networks, token_network_listeners, registry_listener, open_channels,
                   monitor_requests, stop_event, envVars, crashVars, listenerVars, setupVars, wait_pc>>

stop_forgets_token_networks ==
    /\ pc # "created"
    /\ registry_listener' = "stopped"
    /\ stop_event' = TRUE
    /\ last_event' = NoEvent
    /\ UNCHANGED <<token_networks, token_network_listeners, open_channels, monitor_requests,
                   task_list, pc, envVars, crashVars, listenerVars, setupVars, wait_pc>>

stop ==
    /\ pc # "created"
    /\ registry_listener' = "stopped"
    /\ token_network_listeners' =
          [i \in 1..Len(token_network_listeners) |->
              [token_network_listeners[i] EXCEPT !.running = FALSE]]
    /\ stop_event' = TRUE
    /\ last_event' = NoEvent
    /\ UNCHANGED <<token_networks, open_channels, monitor_requests, task_list, pc, envVars,
                   crashVars, listenerVars, setupVars, wait_pc>>

(* ------------------ the chain, the listeners, the transport ------------ *)
\* the confirmed head moves on
NewBlock ==
    /\ block < MaxBlock
    /\ block' = block + 1
    /\ last_event' = NoEvent
    /\ UNCHANGED <<serverVars, chain, monitor_calls, claim_calls, crashVars, listenerVars, setupVars, wait_pc>>

\* the registry listener delivers a confirmed TokenNetworkCreated log
TokenNetworkCreated ==
    /\ registry_listener = "started"
    /\ \E tn \in TokenNetworks :
          /\ handle_token_network_created(tn, block)
          /\ last_event' = RegistryEvent(tn)
    /\ UNCHANGED <<registry_listener, open_channels, monitor_requests, task_list, stop_event,
                   pc, envVars, crashVars, listenerVars, setupVars, wait_pc>>

ListenerRunning(address) ==
    \E i \in 1..Len(token_network_listeners) :
        /\ token_network_listeners[i].address = address
        /\ token_network_listeners[i].running
        /\ token_network_listeners[i].sync_start_block <= block

\* what the token network contract can emit for a channel, given its history
Emits(event) ==
    LET ch == chain[<<event.address, event.channel_identifier>>] IN
    CASE event.event = "ChannelOpened" ->
            ch.state = "none" /\ event.nonce = 1
      [] event.event = "ChannelClosed" ->
            ch.state = "opened" /\ event.nonce = 1 /\ event.settle_timeout = ch.settle_timeout
      [] event.event = "NonClosingBalanceProofUpdated" ->
            /\ ch.state = "closed" /\ event.nonce > ch.nonce
            /\ event.settle_timeout = ch.settle_timeout
      [] event.event = "ChannelSettled" ->
            /\ ch.state = "closed" /\ event.nonce = 1
            /\ event.settle_timeout = ch.settle_timeout
            /\ block >= ch.closing_block + ch.settle_timeout

Recorded(event) ==
    LET key == <<event.address, event.channel_identifier>>
        ch == chain[key] IN
    CASE event.event = "ChannelOpened" ->
            [chain EXCEPT ![key] = [NoChannel EXCEPT !.state = "opened",
                                                     !.settle_timeout = event.settle_timeout]]
      [] event.event = "ChannelClosed" ->
            [chain EXCEPT ![key] = [ch EXCEPT !.state = "closed", !.closing_block = block,
                                              !.request_at_close =
                                                  monitor_requests[event.channel_identifier].nonce]]
      [] event.event = "NonClosingBalanceProofUpdated" ->
            [chain EXCEPT ![key] = [ch EXCEPT !.nonce = event.nonce]]
      [] event.event = "ChannelSettled" ->
            [chain EXCEPT ![key] = [ch EXCEPT !.state = "settled"]]

\* a token network listener delivers a confirmed channel log
ChannelEventStep(event) ==
        /\ ListenerRunning(event.address)
        /\ Emits(event)
        /\ on_channel_event(event)
        /\ chain' = Recorded(event)
        /\ last_event' = event
        /\ UNCHANGED <<token_networks, token_network_listeners, registry_listener, stop_event,
                       pc, block, monitor_calls, claim_calls, crashVars, listenerVars, setupVars, wait_pc>>

ChannelEvent == \E event \in ChannelEvents : ChannelEventStep(event)

\* the transport hands a received message to its callback
MessageStep(message) ==
    /\ pc # "created"
    /\ on_message_event(message)
    /\ last_event' = NoEvent
    /\ UNCHANGED <<token_networks, token_network_listeners, registry_listener, stop_event,
                   pc, envVars, crashVars, listenerVars, setupVars, wait_pc>>

MessageReceived == \E message \in Messages : MessageStep(message)

Next ==
    \/ Start
    \/ LoopCheck
    \/ LoopWait
    \/ stop
    \/ NewBlock
    \/ TokenNetworkCreated
    \/ ChannelEvent
    \/ MessageReceived
    \/ RunTask

(* ------------------- wait_tasks and the fair scheduler ------------------ *)
\* wait_tasks is entered by a caller outside the main loop
WaitTasksCall ==
    /\ pc # "created"
    /\ wait_pc \in {"idle", "returned"}
    /\ wait_pc' = "waiting"
    /\ last_event' = NoEvent
    /\ UNCHANGED <<serverVars, envVars, crashVars, listenerVars, setupVars>>

wait_tasks_returns_early ==
    /\ wait_pc = "waiting"
    /\ wait_pc' = IF \A i \in 1..Len(task_list) : task_list[i].done
                  THEN "returned" ELSE "waiting"
    /\ last_event' = NoEvent
    /\ UNCHANGED <<serverVars, envVars, crashVars, listenerVars, setupVars>>

\* wait_tasks 276..281: one round of the loop: return on an empty task_list, else sleep
wait_tasks ==
    /\ wait_pc = "waiting"
    /\ wait_pc' = IF Len(task_list) = 0 THEN "returned" ELSE "waiting"
    /\ last_event' = NoEvent
    /\ UNCHANGED <<serverVars, envVars, crashVars, listenerVars, setupVars>>

NextFair ==
    \/ Next
    \/ WaitTasksCall
    \/ wait_tasks

(* ------------- the feed with two token networks and repeats ------------ *)
\* The listeners of two token networks hand their logs to the same callback; a
\* listener may hand over again the log it handed over last, and may hand over the
\* closing of a channel whose opening the service never saw.
FedEventNames == {"ChannelOpened", "ChannelClosed", "ChannelSettled"}
FedEvents ==
    [event : FedEventNames, address : AllTokenNetworks, channel_identifier : Channels,
     settle_timeout : SettleTimeouts, nonce : {1}]
FedMessages ==
    {[type |-> "MonitorRequest", channel_identifier |-> c, token_network_address |-> tn,
      nonce |-> n] : c \in Channels, tn \in AllTokenNetworks, n \in {1}}

Unopened(event) ==
    /\ event.event = "ChannelClosed"
    /\ chain[<<event.address, event.channel_identifier>>].state = "none"
Redelivered(event) == event = last_event /\ ~Emits(event) /\ ~Unopened(event)

RegistryEventFedStep(tn) ==
    /\ registry_listener = "started"
    /\ handle_token_network_created(tn, block)
    /\ last_event' = RegistryEvent(tn)
    /\ UNCHANGED <<registry_listener, open_channels, monitor_requests, task_list, stop_event,
                   pc, envVars, crashVars, listenerVars, setupVars, wait_pc>>

RegistryEventFed == \E tn \in AllTokenNetworks : RegistryEventFedStep(tn)

ChannelEventFedStep(event) ==
    /\ ListenerRunning(event.address)
    /\ Emits(event) \/ Unopened(event) \/ Redelivered(event)
    /\ on_channel_event(event)
    /\ chain' = IF Redelivered(event) THEN chain ELSE Recorded(event)
    /\ last_event' = event
    /\ UNCHANGED <<token_networks, token_network_listeners, registry_listener, stop_event,
                   pc, block, monitor_calls, claim_calls, crashVars, listenerVars, setupVars, wait_pc>>

ChannelEventFed == \E event \in FedEvents : ChannelEventFedStep(event)

MessageFed == \E message \in FedMessages : MessageStep(message)

NextFeed ==
    \/ Start
    \/ LoopCheck
    \/ LoopWait
    \/ NewBlock
    \/ RegistryEventFed
    \/ ChannelEventFed
    \/ MessageFed
    \/ RunTask

(***************************************************************************)
(* Part II: the service test_crash drives (monitoring_service.service,     *)
(* its database and its event handlers).  Only the test is among the       *)
(* sources; the service is modelled from the specification: the reducer    *)
(* of 4.D, the action scheduler of 4.E, request intake 4.F and the tick of *)
(* 4.H, whose commit is the only write to the database.                    *)
(***************************************************************************)
MaxChainLen == 6
ClaimDelay == 1

NoRow == [state |-> "none", settle_timeout |-> 0, closing_block |-> -1, nonce |-> 0,
          assisted |-> FALSE]
EmptyDb == [latest_confirmed_block |-> 0,
            channels |-> [c \in Channels |-> NoRow],
            monitor_requests |-> [c \in Channels |-> 0],
            scheduled_actions |-> {}]

\* load(): the in-memory blockchain state of a service built on a database
Load(db) == [latest_confirmed_block |-> db.latest_confirmed_block]

\* new_ms building the service without reading the database file back
new_ms_forgets(db) == [mem |-> Load(EmptyDb), db |-> db]

\* new_ms opening a fresh database file instead of the one that exists
new_ms_fresh_db(db) == [mem |-> Load(EmptyDb), db |-> EmptyDb]

\* new_ms(filename): a service on the database of that file
new_ms(db) == [mem |-> Load(db), db |-> db]

ChainLogEvents ==
    [event : EventNames \cup {"MonitoringAssistedByMS"}, channel_identifier : Channels,
     settle_timeout : SettleTimeouts, nonce : Nonces]
    \cup {[event |-> "UpdatedHeadBlock", channel_identifier |-> 0, settle_timeout |-> 0,
           nonce |-> 0]}

Action(kind, channel_id, trigger_block) ==
    [kind |-> kind, channel_identifier |-> channel_id, trigger_block |-> trigger_block,
     in_flight |-> FALSE]
Pending(db, kind, channel_id) ==
    {a \in db.scheduled_actions :
        a.kind = kind /\ a.channel_identifier = channel_id /\ ~a.in_flight}
HasAction(db, kind, channel_id) ==
    \E a \in db.scheduled_actions : a.kind = kind /\ a.channel_identifier = channel_id

\* ChannelClosed for a channel that was never opened
Violates(db, event) ==
    /\ event.event = "ChannelClosed"
    /\ db.channels[event.channel_identifier].state = "none"

\* reduce(state, event) at block b: the handlers of 4.D
reduce(db, event, b) ==
    LET c == event.channel_identifier
        row == db.channels[c]
        stored == db.monitor_requests[c] IN
    CASE event.event = "ChannelOpened" /\ row.state = "none" ->
            [db EXCEPT !.channels[c] =
                [NoRow EXCEPT !.state = "opened", !.settle_timeout = event.settle_timeout]]
      [] event.event = "ChannelClosed" /\ row.state = "opened" ->
            [db EXCEPT
                !.channels[c] = [row EXCEPT !.state = "closed", !.closing_block = b],
                !.scheduled_actions =
                    IF stored > 0 /\ ~HasAction(db, "ActionMonitoringTriggered", c)
                    THEN @ \cup {Action("ActionMonitoringTriggered", c,
                                        b + MonitorDelay(row.settle_timeout))}
                    ELSE @]
      [] event.event = "NonClosingBalanceProofUpdated" /\ row.state = "closed" ->
            [db EXCEPT
                !.channels[c] = [row EXCEPT !.nonce = IF event.nonce > @ THEN event.nonce
                                                                        ELSE @],
                !.scheduled_actions =
                    IF event.nonce >= stored
                    THEN @ \ Pending(db, "ActionMonitoringTriggered", c)
                    ELSE @]
      [] event.event = "MonitoringAssistedByMS" /\ row.state = "closed" ->
            [db EXCEPT
                !.channels[c] = [row EXCEPT !.assisted = TRUE],
                !.scheduled_actions =
                    {a \in @ : ~(a.kind = "ActionMonitoringTriggered"
                                 /\ a.channel_identifier = c /\ a.in_flight)}]
      [] event.event = "ChannelSettled" /\ row.state = "closed" ->
            [db EXCEPT
                !.channels[c] = [row EXCEPT !.state = "settled"],
                !.scheduled_actions =
                    (@ \ Pending(db, "ActionMonitoringTriggered", c))
                    \cup (IF row.assisted /\ ~HasAction(db, "ActionClaimRewardTriggered", c)
                          THEN {Action("ActionClaimRewardTriggered", c, b + ClaimDelay)}
                          ELSE {})]
      [] OTHER -> db

\* the fold of the reducer over the events of blocks from+1 .. to
RECURSIVE Fold(_, _, _)
Fold(db, from, to) ==
    IF from >= to THEN db
    ELSE Fold(reduce(db, mock_chain[from + 1], from + 1), from + 1, to)

RECURSIVE FoldViolates(_, _, _)
FoldViolates(db, from, to) ==
    IF from >= to THEN FALSE
    ELSE \/ Violates(db, mock_chain[from + 1])
         \/ FoldViolates(reduce(db, mock_chain[from + 1], from + 1), from + 1, to)

\* the preconditions of an action, re-checked when it is due
PreconditionsMet(db, a) ==
    LET row == db.channels[a.channel_identifier] IN
    IF a.kind = "ActionMonitoringTriggered"
    THEN /\ row.state = "closed"
         /\ db.monitor_requests[a.channel_identifier] > 0
         /\ row.nonce < db.monitor_requests[a.channel_identifier]
    ELSE row.state = "settled" /\ row.assisted

Due(db, head) == {a \in db.scheduled_actions : ~a.in_flight /\ a.trigger_block <= head}
Firing(db, head) == {a \in Due(db, head) : PreconditionsMet(db, a)}

\* the due actions that fire are left as they were, not marked in-flight
Drain_keeps_pending(db, head) ==
    [db EXCEPT !.scheduled_actions =
        (@ \ Due(db, head)) \cup Firing(db, head)]

\* the due actions are popped: those that fire stay as in-flight rows, the rest go
Drain(db, head) ==
    [db EXCEPT !.scheduled_actions =
        (@ \ Due(db, head)) \cup {[a EXCEPT !.in_flight = TRUE] : a \in Firing(db, head)}]

\* commit(new_head_block, ...): the one write of a tick
commit(db, new_head_block) == [db EXCEPT !.latest_confirmed_block = new_head_block]

KindRank(kind) == IF kind = "ActionMonitoringTriggered" THEN 0 ELSE 1

\* the chain writer's calls for the actions that fire at a tick, in trigger order
RECURSIVE CallsOf(_, _, _)
CallsOf(db, actions, head) ==
    IF actions = {} THEN <<>>
    ELSE LET a == CHOOSE x \in actions :
                     \A y \in actions :
                        \/ x.trigger_block < y.trigger_block
                        \/ /\ x.trigger_block = y.trigger_block
                           /\ KindRank(x.kind) < KindRank(y.kind)
                        \/ /\ x.trigger_block = y.trigger_block
                           /\ x.kind = y.kind
                           /\ x.channel_identifier <= y.channel_identifier IN
         <<[kind |-> a.kind, channel_identifier |-> a.channel_identifier,
            nonce |-> db.monitor_requests[a.channel_identifier], block |-> head]>>
         \o CallsOf(db, actions \ {a}, head)

\* _process_new_blocks(to_block): one tick; a tick that meets a violation does not commit
process_new_blocks(ms, to_block) ==
    LET from == ms.mem.latest_confirmed_block
        folded == Fold(ms.db, from, to_block)
        committed == commit(Drain(folded, to_block), to_block) IN
    IF FoldViolates(ms.db, from, to_block)
    THEN [ms |-> ms, calls |-> <<>>]
    ELSE [ms |-> [mem |-> [latest_confirmed_block |-> to_block], db |-> committed],
          calls |-> CallsOf(folded, Firing(folded, to_block), to_block)]

\* a tick that raises with its transaction rolled back only in part: the head block is
\* the old one, the rest of the working copy stays
rollback_keeps_deltas(db, working) ==
    [working EXCEPT !.latest_confirmed_block = db.latest_confirmed_block]

\* the transaction of a tick that raises is rolled back: the database is as it was
rollback(db, working) == db

\* the steps of a tick that can raise: asking the node for the logs, the commit
FailureSteps == {"poll", "commit"}

\* _process_new_blocks(to_block) raising at step: the chain writer is not reached and
\* the snapshot in memory is dropped for the one load() gives
failed_tick(ms, to_block, step) ==
    LET from == ms.mem.latest_confirmed_block
        working == IF step = "poll" THEN ms.db
                   ELSE Drain(Fold(ms.db, from, to_block), to_block)
        db == rollback(ms.db, working) IN
    [ms |-> [mem |-> Load(db), db |-> db], calls |-> <<>>]

\* request intake 4.F: the channel-state check, then the upsert
upsert_monitor_request(db, channel_id, nonce) ==
    LET row == db.channels[channel_id]
        stored == db.monitor_requests[channel_id] IN
    IF /\ \/ row.state = "opened"
          \/ row.state = "closed" /\ nonce > row.nonce
       /\ nonce > stored
    THEN [db EXCEPT !.monitor_requests[channel_id] = nonce]
    ELSE db

\* history: the block the tick just before was to reach, and the step that raised, when
\* that tick raised
NoFailure == [to_block |-> -1, step |-> "none"]

CrashInit ==
    /\ mock_chain = <<>>
    /\ stable_ms = [ms |-> new_ms(EmptyDb), calls |-> <<>>, all_calls |-> <<>>,
                    last_restart |-> -1, last_failed |-> NoFailure]
    /\ crashy_ms = [ms |-> new_ms(EmptyDb), calls |-> <<>>, all_calls |-> <<>>,
                    last_restart |-> -1, last_failed |-> NoFailure]

\* what the contracts can emit next, given the log so far
RECURSIVE ChainRow(_, _)
ChainRow(log, c) ==
    IF log = <<>> THEN "none"
    ELSE LET before == ChainRow(SubSeq(log, 1, Len(log) - 1), c)
             e == log[Len(log)] IN
         IF e.channel_identifier # c THEN before
         ELSE IF e.event = "ChannelOpened" THEN "opened"
         ELSE IF e.event = "ChannelClosed" THEN "closed"
         ELSE IF e.event = "ChannelSettled" THEN "settled"
         ELSE before

RECURSIVE ClosedAt(_, _)
ClosedAt(log, c) ==
    IF log = <<>> THEN 0
    ELSE IF log[Len(log)].event = "ChannelClosed" /\ log[Len(log)].channel_identifier = c
         THEN Len(log)
         ELSE ClosedAt(SubSeq(log, 1, Len(log) - 1), c)

CanMine(event) ==
    LET st == IF event.channel_identifier \in Channels
              THEN ChainRow(mock_chain, event.channel_identifier) ELSE "none" IN
    CASE event.event = "UpdatedHeadBlock" -> TRUE
      [] event.event = "ChannelOpened" -> st = "none" /\ event.nonce = 1
      [] event.event = "ChannelClosed" -> st \in {"none", "opened"} /\ event.nonce = 1
      [] event.event = "NonClosingBalanceProofUpdated" -> st = "closed"
      [] event.event = "MonitoringAssistedByMS" ->
            /\ st = "closed" /\ event.nonce = 1
            /\ \E i \in 1..Len(stable_ms.all_calls) :
                  /\ stable_ms.all_calls[i].kind = "ActionMonitoringTriggered"
                  /\ stable_ms.all_calls[i].channel_identifier = event.channel_identifier
      [] event.event = "ChannelSettled" ->
            /\ st = "closed" /\ event.nonce = 1
            /\ Len(mock_chain) + 1 >=
                  ClosedAt(mock_chain, event.channel_identifier) + event.settle_timeout

\* a new confirmed block with its event
MineBlock ==
    /\ Len(mock_chain) < MaxChainLen
    /\ \E event \in ChainLogEvents :
          /\ CanMine(event)
          /\ mock_chain' = Append(mock_chain, event)
    /\ UNCHANGED <<serverVars, envVars, last_event, stable_ms, crashy_ms, listenerVars, setupVars, wait_pc>>

Ran(inst, to_block) ==
    LET r == process_new_blocks(inst.ms, to_block) IN
    [ms |-> r.ms, calls |-> r.calls, all_calls |-> inst.all_calls \o r.calls,
     last_restart |-> inst.last_restart, last_failed |-> NoFailure]

Failed(inst, to_block, step) ==
    LET r == failed_tick(inst.ms, to_block, step) IN
    [ms |-> r.ms, calls |-> r.calls, all_calls |-> inst.all_calls \o r.calls,
     last_restart |-> inst.last_restart,
     last_failed |-> [to_block |-> to_block, step |-> step]]

\* the loop body of test_crash: both services process the blocks up to to_block
ProcessNewBlocks ==
    /\ \E to_block \in 1..Len(mock_chain) :
          /\ to_block > stable_ms.ms.mem.latest_confirmed_block
          /\ stable_ms' = Ran(stable_ms, to_block)
          /\ crashy_ms' = Ran(crashy_ms, to_block)
    /\ UNCHANGED <<serverVars, envVars, last_event, mock_chain, listenerVars, setupVars, wait_pc>>

\* the loop body with a tick that raises in both services (the node both read from
\* cannot be reached, or the commit raises)
ProcessNewBlocksFailsAt(to_block, step) ==
    /\ to_block \in 1..Len(mock_chain)
    /\ to_block > stable_ms.ms.mem.latest_confirmed_block
    /\ stable_ms' = Failed(stable_ms, to_block, step)
    /\ crashy_ms' = Failed(crashy_ms, to_block, step)
    /\ UNCHANGED <<serverVars, envVars, last_event, mock_chain, listenerVars, setupVars, wait_pc>>

ProcessNewBlocksFails ==
    \E to_block \in 1..Len(mock_chain), step \in FailureSteps :
        ProcessNewBlocksFailsAt(to_block, step)

\* crashy_ms = new_ms("crashy.db"): the process is killed between two commits and a
\* fresh service is built on its database
Crash ==
    /\ crashy_ms' = [crashy_ms EXCEPT
                        !.ms = new_ms(crashy_ms.ms.db),
                        !.last_restart = crashy_ms.ms.db.latest_confirmed_block]
    /\ UNCHANGED <<serverVars, envVars, last_event, mock_chain, stable_ms, listenerVars, setupVars, wait_pc>>

\* the request collector writes a received request into both databases
ReceiveMonitorRequest ==
    /\ \E c \in Channels, nonce \in Nonces :
          /\ stable_ms' = [stable_ms EXCEPT
                              !.ms.db = upsert_monitor_request(@, c, nonce)]
          /\ crashy_ms' = [crashy_ms EXCEPT
                              !.ms.db = upsert_monitor_request(@, c, nonce)]
    /\ UNCHANGED <<serverVars, envVars, last_event, mock_chain, listenerVars, setupVars, wait_pc>>

NextCrash ==
    \/ MineBlock
    \/ ProcessNewBlocks
    \/ ProcessNewBlocksFails
    \/ Crash
    \/ ReceiveMonitorRequest

(* ----------------------- a tick whose signer fails ---------------------- *)
\* the actions that fire are marked in-flight although nothing was submitted
sign_failed_in_flight(db, head) ==
    [db EXCEPT !.scheduled_actions =
        (@ \ Due(db, head)) \cup {[a EXCEPT !.in_flight = TRUE] : a \in Firing(db, head)}]

\* SignatureFailure: the due actions are popped, but those that fire cannot be signed:
\* they remain scheduled as they were, and those whose preconditions fail go
sign_failed(db, head) ==
    [db EXCEPT !.scheduled_actions = (@ \ Due(db, head)) \cup Firing(db, head)]

\* _process_new_blocks(to_block) with a signer that fails: the tick commits, nothing is
\* submitted
unsigned_tick(ms, to_block) ==
    LET from == ms.mem.latest_confirmed_block
        folded == Fold(ms.db, from, to_block)
        committed == commit(sign_failed(folded, to_block), to_block) IN
    IF FoldViolates(ms.db, from, to_block)
    THEN [ms |-> ms, calls |-> <<>>]
    ELSE [ms |-> [mem |-> [latest_confirmed_block |-> to_block], db |-> committed],
          calls |-> <<>>]

Unsigned(inst, to_block) ==
    LET r == unsigned_tick(inst.ms, to_block) IN
    [ms |-> r.ms, calls |-> r.calls, all_calls |-> inst.all_calls \o r.calls,
     last_restart |-> inst.last_restart,
     last_failed |-> [to_block |-> to_block, step |-> "sign"]]

\* the loop body with a tick at which an action fires and the signer both services use
\* fails
ProcessNewBlocksUnsignedAt(to_block) ==
    /\ to_block \in 1..Len(mock_chain)
    /\ to_block > stable_ms.ms.mem.latest_confirmed_block
    /\ ~FoldViolates(stable_ms.ms.db, stable_ms.ms.mem.latest_confirmed_block, to_block)
    /\ Firing(Fold(stable_ms.ms.db, stable_ms.ms.mem.latest_confirmed_block, to_block),
              to_block) # {}
    /\ stable_ms' = Unsigned(stable_ms, to_block)
    /\ crashy_ms' = Unsigned(crashy_ms, to_block)
    /\ UNCHANGED <<serverVars, envVars, last_event, mock_chain, listenerVars, setupVars,
                   wait_pc>>

ProcessNewBlocksUnsigned ==
    \E to_block \in 1..Len(mock_chain) : ProcessNewBlocksUnsignedAt(to_block)

NextSign ==
    \/ MineBlock
    \/ ProcessNewBlocks
    \/ ProcessNewBlocksUnsigned
    \/ Crash
    \/ ReceiveMonitorRequest

(***************************************************************************)
(* Part III: the listeners.  __init__ builds one BlockchainListener for    *)
(* the registry, handle_token_network_created one BlockchainMonitor per    *)
(* token network; each is started on its own and polls its own contract,   *)
(* handing the confirmed logs of that contract, oldest first, to the       *)
(* callback registered with it.                                            *)
(***************************************************************************)
MaxLog == 5
Registry == "registry"

LogEvents ==
    {RegistryEvent(tn) : tn \in AllTokenNetworks}
    \cup [event : {"ChannelOpened", "ChannelClosed"}, address : AllTokenNetworks,
          channel_identifier : Channels, settle_timeout : SettleTimeouts, nonce : {1}]
ContractOf(event) == IF event.event = "TokenNetworkCreated" THEN Registry ELSE event.address

\* the state a channel has on chain after the logs of log
RECURSIVE LoggedState(_, _, _)
LoggedState(log, address, channel_id) ==
    IF log = <<>> THEN "none"
    ELSE LET before == LoggedState(SubSeq(log, 1, Len(log) - 1), address, channel_id)
             e == log[Len(log)] IN
         IF e.address # address \/ e.channel_identifier # channel_id THEN before
         ELSE IF e.event = "ChannelOpened" THEN "opened"
         ELSE IF e.event = "ChannelClosed" THEN "closed"
         ELSE before
Created(log, address) == \E i \in 1..Len(log) : log[i] = RegistryEvent(address)

\* what the contracts can log next
CanLog(event) ==
    CASE event.event = "TokenNetworkCreated" -> ~Created(chain_log, event.address)
      [] event.event = "ChannelOpened" ->
            /\ Created(chain_log, event.address)
            /\ LoggedState(chain_log, event.address, event.channel_identifier) = "none"
      [] event.event = "ChannelClosed" ->
            LoggedState(chain_log, event.address, event.channel_identifier) = "opened"

ListenerInit ==
    /\ chain_log = <<>>
    /\ polled = [contract \in {Registry} \cup AllTokenNetworks |-> 0]
    /\ handled = <<>>

\* a block with one log is mined; the log at position i is that of block i, and the
\* head the node reports is the number of the last block
Mined ==
    /\ Len(chain_log) < MaxLog
    /\ \E event \in LogEvents :
          /\ CanLog(event)
          /\ chain_log' = Append(chain_log, event)
    /\ UNCHANGED <<serverVars, envVars, last_event, crashVars, polled, handled, setupVars,
                   wait_pc>>

NodeHead == Len(chain_log)

\* the confirmed logs of a contract its listener has not handed over yet: a log is
\* confirmed once the head is at least required_confirmations past its block
Unpolled(contract, sync_start_block, required_confirmations) ==
    {i \in 1..Len(chain_log) :
        /\ i > polled[contract]
        /\ i >= sync_start_block
        /\ i + required_confirmations <= NodeHead
        /\ ContractOf(chain_log[i]) = contract}
Oldest(positions) == CHOOSE i \in positions : \A j \in positions : i <= j

\* the registry listener hands its next log to handle_token_network_created
RegistryListenerPolls ==
    /\ registry_listener = "started"
    /\ Unpolled(Registry, 0, config.required_confirmations) # {}
    /\ LET i == Oldest(Unpolled(Registry, 0, config.required_confirmations)) IN
          /\ handle_token_network_created(chain_log[i].address, i)
          /\ polled' = [polled EXCEPT ![Registry] = i]
          /\ handled' = Append(handled, i)
    /\ UNCHANGED <<registry_listener, open_channels, monitor_requests, task_list, stop_event,
                   pc, envVars, last_event, crashVars, chain_log, setupVars, wait_pc>>

\* the listener of a token network hands its next log to on_channel_event
TokenNetworkListenerPollsAt(n) ==
    LET listener == token_network_listeners[n]
        unpolled == Unpolled(listener.address, listener.sync_start_block,
                             listener.required_confirmations) IN
    /\ listener.running
    /\ unpolled # {}
    /\ on_channel_event(chain_log[Oldest(unpolled)])
    /\ polled' = [polled EXCEPT ![listener.address] = Oldest(unpolled)]
    /\ handled' = Append(handled, Oldest(unpolled))
    /\ UNCHANGED <<token_networks, token_network_listeners, registry_listener, stop_event,
                   pc, envVars, last_event, crashVars, chain_log, setupVars, wait_pc>>

TokenNetworkListenerPolls ==
    \E n \in 1..Len(token_network_listeners) : TokenNetworkListenerPollsAt(n)

NextListeners ==
    \/ Start
    \/ Mined
    \/ RegistryListenerPolls
    \/ TokenNetworkListenerPolls

(***************************************************************************)
(* Part IV: construction.  __init__ (server.py 50..130) compares what the  *)
(* state db holds about itself with the chain id the node reports, the     *)
(* address of the private key and the monitoring contract address, before  *)
(* it builds the registry listener.  The state db is not part of the       *)
(* sources at hand: setup_db is modelled from the specification.           *)
(***************************************************************************)
ChainIds == {1, 2}
Addresses == {"MS1", "MS2"}
MonitorContracts == {"MSC1", "MSC2"}
\* __init__: required_confirmations: int = 8
DefaultRequiredConfirmations == 8
ConfirmationDepths == {1, 2}

Uninitialized == [initialized |-> FALSE, chain_id |-> 0, server_address |-> "none",
                  monitoring_contract_address |-> "none"]

\* state_db.setup_db(chain_id, monitor_contract_address, self.address)
setup_db(chain_id, monitor_contract_address, address) ==
    [initialized |-> TRUE, chain_id |-> chain_id, server_address |-> address,
     monitoring_contract_address |-> monitor_contract_address]

StateDbs ==
    {Uninitialized} \cup {setup_db(c, m, a) : c \in ChainIds, m \in MonitorContracts,
                                              a \in Addresses}

Configs(depths) ==
    [chain_id : ChainIds, address : Addresses, monitor_contract_address : MonitorContracts,
     registered : BOOLEAN, required_confirmations : depths]

Raise(exception, db) == [raised |-> exception, state_db |-> db, registry_listener |-> "none"]

MonitoringService_unchecked_chain_id(db, cfg) ==
    LET checked == IF db.initialized = FALSE
                   THEN setup_db(cfg.chain_id, cfg.monitor_contract_address, cfg.address)
                   ELSE db
    IN  IF checked.server_address # cfg.address THEN Raise("StateDBInvalid", checked)
        ELSE IF checked.monitoring_contract_address # cfg.monitor_contract_address
        THEN Raise("StateDBInvalid", checked)
        ELSE IF ~cfg.registered THEN Raise("ServiceNotRegistered", checked)
        ELSE [raised |-> "none", state_db |-> checked, registry_listener |-> "created"]

\* __init__ 92..125: the sanity checks, then the registry listener
MonitoringService(db, cfg) ==
    LET chain_id == cfg.chain_id
        checked == IF db.initialized = FALSE
                   THEN setup_db(chain_id, cfg.monitor_contract_address, cfg.address)
                   ELSE db
    IN  IF checked.chain_id # chain_id THEN Raise("StateDBInvalid", checked)
        ELSE IF checked.server_address # cfg.address THEN Raise("StateDBInvalid", checked)
        ELSE IF checked.monitoring_contract_address # cfg.monitor_contract_address
        THEN Raise("StateDBInvalid", checked)
        ELSE IF ~cfg.registered THEN Raise("ServiceNotRegistered", checked)
        ELSE [raised |-> "none", state_db |-> checked, registry_listener |-> "created"]

\* the service has been constructed on a database that matches its configuration
Constructed(depths) ==
    /\ config \in {cfg \in Configs(depths) :
                      /\ cfg.chain_id = 1 /\ cfg.address = "MS1"
                      /\ cfg.monitor_contract_address = "MSC1" /\ cfg.registered}
    /\ state_db = setup_db(config.chain_id, config.monitor_contract_address, config.address)
    /\ constructed = "yes"
    /\ wait_pc = "idle"

\* before __init__: any database, any configuration, no listener and no greenlet yet
SetupInit ==
    /\ state_db \in StateDbs
    /\ config \in Configs({DefaultRequiredConfirmations})
    /\ constructed = "no"
    /\ wait_pc = "idle"
    /\ token_networks = {}
    /\ token_network_listeners = <<>>
    /\ registry_listener = "none"
    /\ open_channels = {}
    /\ monitor_requests = [c \in Channels |-> NoRequest]
    /\ task_list = <<>>
    /\ stop_event = FALSE
    /\ pc = "none"
    /\ block = 0
    /\ chain = [k \in ChannelKeys |-> NoChannel]
    /\ monitor_calls = {}
    /\ claim_calls = {}
    /\ last_event = NoEvent

Construct ==
    /\ constructed = "no"
    /\ LET result == MonitoringService(state_db, config)
       IN  /\ constructed' = IF result.raised = "none" THEN "yes" ELSE result.raised
           /\ state_db' = result.state_db
           /\ registry_listener' = result.registry_listener
           /\ pc' = IF result.raised = "none" THEN "created" ELSE "none"
    /\ last_event' = NoEvent
    /\ UNCHANGED <<token_networks, token_network_listeners, open_channels, monitor_requests,
                   task_list, stop_event, envVars, crashVars, listenerVars, config, wait_pc>>

NextSetup ==
    \/ Construct
    \/ Start

Init == ServerInit /\ CrashInit /\ ListenerInit /\ Constructed({DefaultRequiredConfirmations})
InitSetup == SetupInit /\ CrashInit /\ ListenerInit
InitListeners == ServerInit /\ CrashInit /\ ListenerInit /\ Constructed(ConfirmationDepths)
vars == <<serverVars, envVars, last_event, crashVars, listenerVars, setupVars, wait_pc>>
Spec == Init /\ [][Next]_vars
SpecCrash == Init /\ [][NextCrash]_vars
SpecFeed == Init /\ [][NextFeed]_vars
SpecListeners == InitListeners /\ [][NextListeners]_vars
SpecSign == Init /\ [][NextSign]_vars
SpecSetup == InitSetup /\ [][NextSetup]_vars
\* gevent runs every greenlet that is ready: the main loop (its wait has a timeout),
\* every started task, and the loop of wait_tasks (its sleep ends)
Fairness ==
    /\ WF_vars(LoopCheck)
    /\ WF_vars(LoopWait)
    /\ WF_vars(RunTask)
    /\ WF_vars(wait_tasks)
SpecFair == Init /\ [][NextFair]_vars /\ Fairness

TypeOK ==
    /\ open_channels \subseteq Channels
    /\ token_networks \subseteq AllTokenNetworks
    /\ Len(task_list) <= MaxTasks
    /\ block \in Blocks


(***************************************************************************)
(* Properties of Part IV                                                   *)
(***************************************************************************)
Mismatch ==
    /\ state_db.initialized
    /\ \/ state_db.chain_id # config.chain_id
       \/ state_db.server_address # config.address
       \/ state_db.monitoring_contract_address # config.monitor_contract_address

\* C21: construction on an initialised database whose chain id, service address or
\* monitoring contract address differs from the current one ends in StateDBInvalid with
\* no listener created and the persisted values as they were, and no listener is ever
\* created or started afterwards; construction on an uninitialised database stores the
\* current values and does not end in StateDBInvalid.
C21_StartupChecks ==
    /\ [](constructed = "StateDBInvalid" =>
            /\ registry_listener = "none"
            /\ token_network_listeners = <<>>
            /\ pc = "none")
    /\ [][Construct =>
            /\ Mismatch => /\ constructed' = "StateDBInvalid"
                           /\ state_db' = state_db
            /\ ~state_db.initialized =>
                   /\ state_db' = setup_db(config.chain_id, config.monitor_contract_address,
                                           config.address)
                   /\ constructed' # "StateDBInvalid"]_vars

\* construction has failed on a database written for another chain
C21_Witness ==
    /\ constructed = "StateDBInvalid"
    /\ state_db.initialized
    /\ state_db.chain_id # config.chain_id
    /\ state_db.server_address = config.address
    /\ state_db.monitoring_contract_address = config.monitor_contract_address


NoCallTwice(calls) ==
    \A i, j \in 1..Len(calls) :
        (calls[i].kind = calls[j].kind
            /\ calls[i].channel_identifier = calls[j].channel_identifier) => i = j

KeyOf(monitor_request) ==
    <<monitor_request.token_network_address, monitor_request.channel_identifier>>
TasksOf(kind, key) ==
    {i \in 1..Len(task_list) :
        task_list[i].kind = kind /\ KeyOf(task_list[i].monitor_request) = key}
PendingTasksOf(kind, key) == {i \in TasksOf(kind, key) : ~task_list[i].done}
MonitorCallsOf(key) ==
    {call \in monitor_calls :
        <<call.token_network_address, call.channel_identifier>> = key}
TriggerBlock(key) == chain[key].closing_block + MonitorDelay(chain[key].settle_timeout)
IsChainTask(task) == task.kind \in {"OnChannelClose", "OnChannelSettle"}
ChainTasks(tasks) == SelectSeq(tasks, IsChainTask)

\* C3: once ChannelClosed has been handled with a request stored, a monitoring action
\* exists for the channel and is not due before closing_block +
\* floor(settle_timeout * 0.8); handled with no request stored, there is none.
\* (A started task is due at once: RunTask may run it in the current block.)
C3_ScheduledAtTriggerBlock ==
    \A key \in ChannelKeys :
        /\ chain[key].request_at_close > 0 =>
              TasksOf("OnChannelClose", key) # {} \/ MonitorCallsOf(key) # {}
        /\ PendingTasksOf("OnChannelClose", key) # {} => block >= TriggerBlock(key)
        /\ (chain[key].state \in {"closed", "settled"} /\ chain[key].request_at_close = 0) =>
              TasksOf("OnChannelClose", key) = {} /\ MonitorCallsOf(key) = {}

\* C4: every monitor(...) call was made at a block >= the trigger block of its channel,
\* with the channel Closed and the on-chain nonce strictly below the request's nonce.
C4_MonitorOnlyWhenDue ==
    \A call \in monitor_calls :
        LET key == <<call.token_network_address, call.channel_identifier>> IN
        /\ call.block >= TriggerBlock(key)
        /\ call.chain_state = "closed"
        /\ call.chain_nonce < call.nonce

\* C5: once NonClosingBalanceProofUpdated has put a nonce >= the request's nonce on
\* chain, no monitoring action for the channel is pending and monitor(...) is not called.
C5_PreemptedByCounterparty ==
    \A key \in ChannelKeys :
        /\ \A i \in PendingTasksOf("OnChannelClose", key) :
              chain[key].nonce < task_list[i].monitor_request.nonce
        /\ \A call \in MonitorCallsOf(key) :
              call.chain_nonce = 0 \/ call.chain_nonce < call.nonce

\* C6: after ChannelSettled was handled for a channel no monitoring action for it is
\* pending, and none is fired for it.
C6_NoMonitorAfterSettle ==
    \A key \in ChannelKeys :
        /\ chain[key].state = "settled" => PendingTasksOf("OnChannelClose", key) = {}
        /\ \A call \in MonitorCallsOf(key) : call.chain_state # "settled"

\* C7: a reward claim exists for a channel only if this service submitted the monitor
\* update for it (the precondition of MonitoringAssistedByMS carrying its address).
C7_ClaimOnlyIfMonitored ==
    \A key \in ChannelKeys :
        (TasksOf("OnChannelSettle", key) # {}
            \/ \E claim \in claim_calls :
                  <<claim.token_network_address, claim.channel_identifier>> = key)
        => MonitorCallsOf(key) # {}

IsRequest(message) == message.type = "MonitorRequest"
StaleRequest(message) ==
    /\ IsRequest(message)
    /\ monitor_requests[message.channel_identifier] # NoRequest
    /\ message.nonce <= monitor_requests[message.channel_identifier].nonce
StaleTask(task) ==
    /\ task.kind = "StoreMonitorRequest"
    /\ task.monitor_request.nonce <=
          monitor_requests[task.monitor_request.channel_identifier].nonce

\* C8 as claimed: the stored nonce only grows, and intake of a request whose nonce is
\* not above the stored one changes nothing at all.
C8_StaleIntakeIsNoOp ==
    [][/\ \A c \in Channels :
             (monitor_requests[c] # NoRequest /\ monitor_requests'[c] # NoRequest
                 /\ monitor_requests'[c] # monitor_requests[c])
             => monitor_requests'[c].nonce > monitor_requests[c].nonce
       /\ \A message \in Messages :
             (StaleRequest(message) /\ MessageStep(message))
             => UNCHANGED <<serverVars, envVars>>]_vars

\* C8 as amended: the stored nonce only grows; intake of a request whose nonce is not
\* above the stored one leaves the stored requests, the open channels, the token
\* networks and the chain submissions unchanged and does no more than start a
\* StoreMonitorRequest task, whose run changes nothing but its own completion.
C8_MonotoneNonce ==
    [][/\ \A c \in Channels :
             (monitor_requests[c] # NoRequest /\ monitor_requests'[c] # NoRequest
                 /\ monitor_requests'[c] # monitor_requests[c])
             => monitor_requests'[c].nonce > monitor_requests[c].nonce
       /\ \A message \in Messages :
             (StaleRequest(message) /\ MessageStep(message)) =>
                /\ UNCHANGED <<monitor_requests, open_channels, token_networks,
                               token_network_listeners, monitor_calls, claim_calls>>
                /\ \/ task_list' = task_list
                   \/ task_list' = Append(task_list, Task("StoreMonitorRequest", message))
       /\ \A i \in 1..Len(task_list) :
             (StaleTask(task_list[i]) /\ RunTaskAt(i)) =>
                UNCHANGED <<monitor_requests, open_channels, token_networks,
                            token_network_listeners, monitor_calls, claim_calls>>]_vars

\* a request below the stored nonce is in the middle of intake
C8_Witness ==
    \E i \in 1..Len(task_list) :
        /\ StaleTask(task_list[i])
        /\ ~task_list[i].done
        /\ task_list[i].monitor_request.nonce <
              monitor_requests[task_list[i].monitor_request.channel_identifier].nonce

Acceptable(message) ==
    LET ch == chain[KeyOf(message)]
        stored == monitor_requests[message.channel_identifier] IN
    \/ ch.state = "opened"
    \/ /\ ch.state = "closed"
       /\ message.nonce > stored.nonce
       /\ message.nonce > ch.nonce

\* C9: intake of a request for a channel that is unknown, Settled, or Closed with a
\* nonce not above every stored or on-chain nonce, is rejected: stored requests,
\* channels and tasks stay as they are.
C9_IntakeChannelStateCheck ==
    [][\A message \in Messages :
          (IsRequest(message) /\ ~Acceptable(message) /\ MessageStep(message))
          => UNCHANGED <<monitor_requests, open_channels, task_list>>]_vars

\* C10: handling a received message (the callback, and the store task it starts)
\* neither starts a monitor or claim task nor submits a transaction; such tasks are
\* started only by the handler of a ChannelClosed or ChannelSettled event.
C10_IntakeNoChainActivity ==
    [][/\ \A message \in Messages :
             MessageStep(message) =>
                /\ ChainTasks(task_list') = ChainTasks(task_list)
                /\ UNCHANGED <<monitor_calls, claim_calls>>
       /\ \A i \in 1..Len(task_list) :
             (task_list[i].kind = "StoreMonitorRequest" /\ RunTaskAt(i)) =>
                UNCHANGED <<monitor_calls, claim_calls>>
       /\ Len(ChainTasks(task_list')) > Len(ChainTasks(task_list)) =>
             \E event \in ChannelEvents :
                /\ event.event \in {"ChannelClosed", "ChannelSettled"}
                /\ ChannelEventStep(event)]_vars

\* a request was taken in (its store task started, then run) with nothing submitted
C10_Witness ==
    /\ \E i \in 1..Len(task_list) :
          task_list[i].kind = "StoreMonitorRequest" /\ task_list[i].done
    /\ ChainTasks(task_list) = <<>>
    /\ monitor_calls = {}
    /\ claim_calls = {}

(***************************************************************************)
(* Properties of the feed with two token networks                          *)
(***************************************************************************)
\* what the service holds for the channel of a key: whether it counts as open, the
\* request stored for it, the tasks started for it
RequestOfIn(requests, key) ==
    IF KeyOf(requests[key[2]]) = key THEN requests[key[2]] ELSE NoRequest
TasksOfIn(tasks, key) == SelectSeq(tasks, LAMBDA task : KeyOf(task.monitor_request) = key)
SameIdElsewhere(address, channel_id) ==
    {key \in ChannelKeys :
        key[1] # address /\ key[2] = channel_id /\ chain[key].state = "opened"}
Untouched(key) ==
    /\ (key[2] \in open_channels') = (key[2] \in open_channels)
    /\ RequestOfIn(monitor_requests', key) = RequestOfIn(monitor_requests, key)
    /\ TasksOfIn(task_list', key) = TasksOfIn(task_list, key)

\* C12: handling a channel event (one the token network emitted, handed over once) or
\* a monitor request of channel c in one token network leaves the channel state, the
\* stored request and the started tasks of the channel with the same number c in
\* another token network as they were.
C12_KeyedByTokenNetwork ==
    [][/\ \A event \in FedEvents :
             (Emits(event) /\ ChannelEventFedStep(event)) =>
                \A key \in SameIdElsewhere(event.address, event.channel_identifier) :
                    Untouched(key)
       /\ \A message \in FedMessages :
             MessageStep(message) =>
                \A key \in SameIdElsewhere(message.token_network_address,
                                           message.channel_identifier) :
                    Untouched(key)]_vars

\* nothing is known of, stored or started for a channel of another token network
OnlyNetwork(address) ==
    \A key \in ChannelKeys :
        key[1] # address =>
            /\ chain[key].state = "none"
            /\ RequestOfIn(monitor_requests, key) = NoRequest
            /\ TasksOfIn(task_list, key) = <<>>

\* C13: a listener handing over the same event twice in a row leaves the service, after
\* the second time, as it was after the first: the channels, the stored requests, the
\* started tasks (the transactions to submit), the token networks and their listeners.
\* (Stated for the events of a token network while nothing of another one is held.)
C13_IdempotentReplay ==
    [][/\ \A event \in FedEvents :
             (OnlyNetwork(event.address) /\ Redelivered(event)
                 /\ ChannelEventFedStep(event)) =>
                UNCHANGED <<open_channels, monitor_requests, task_list, token_networks,
                            token_network_listeners, monitor_calls, claim_calls>>
       /\ \A tn \in AllTokenNetworks :
             (last_event = RegistryEvent(tn) /\ RegistryEventFedStep(tn)) =>
                UNCHANGED <<open_channels, monitor_requests, task_list, token_networks,
                            token_network_listeners, monitor_calls, claim_calls>>]_vars

\* C14: at no time are two monitor tasks, or two claim tasks, of the same channel
\* pending together, however often the event that starts them is handed over.
C14_OneActionPerKind ==
    \A key \in ChannelKeys :
        /\ Cardinality(PendingTasksOf("OnChannelClose", key)) <= 1
        /\ Cardinality(PendingTasksOf("OnChannelSettle", key)) <= 1

\* C15: handling ChannelClosed for a channel whose ChannelOpened was never handled
\* changes nothing: the open channels, the stored requests and the started tasks are as
\* before, and nothing is submitted.
C15_UnknownChannelClosed ==
    [][\A event \in FedEvents :
          (Unopened(event) /\ ChannelEventFedStep(event)) =>
             UNCHANGED <<open_channels, monitor_requests, task_list, monitor_calls,
                         claim_calls>>]_vars

\* C18: a channel that was opened, whose ChannelClosed (or ChannelSettled) has been
\* handled and which the service no longer counts as open, is never counted as open
\* again.
C18_StateOnlyForward ==
    [][\A key \in ChannelKeys :
          (/\ chain[key].state \in {"closed", "settled"}
           /\ chain[key].settle_timeout \in SettleTimeouts
           /\ key[2] \notin open_channels)
          => key[2] \notin open_channels']_vars

(***************************************************************************)
(* Properties of Part III                                                  *)
(***************************************************************************)
\* C16: the logs of all watched contracts are handled in canonical order: whenever a
\* log has been handled, no log at a smaller position is handled after it.
C16_CanonicalOrder ==
    \A m, n \in 1..Len(handled) : m < n => handled[m] < handled[n]


\* C24: a log is handed to a handler only when the head the node reports is at least
\* required_confirmations past the block of the log, and the token networks, their
\* listeners, the open channels, the stored requests and the task list change only in a
\* step that hands over such a log.
C24_ConfirmationDiscipline ==
    [][/\ handled' # handled =>
             /\ Len(handled') = Len(handled) + 1
             /\ handled'[Len(handled')] + config.required_confirmations <= NodeHead
       /\ <<token_networks, token_network_listeners, open_channels, monitor_requests,
            task_list>>' # <<token_networks, token_network_listeners, open_channels,
                            monitor_requests, task_list>>
             => handled' # handled]_vars

\* a channel event was handed over exactly when it had become confirmed, with a younger
\* log of the same token network on chain that is not confirmed yet
C24_Witness ==
    /\ handled # <<>>
    /\ LET i == handled[Len(handled)] IN
          /\ chain_log[i].event = "ChannelOpened"
          /\ i + config.required_confirmations = NodeHead
          /\ open_channels # {}
          /\ \E j \in (i + 1)..NodeHead : chain_log[j].address = chain_log[i].address


(***************************************************************************)
(* Properties of the registry callback                                     *)
(***************************************************************************)
ListenersOf(listeners, address) ==
    {i \in 1..Len(listeners) : listeners[i].address = address}

\* C22: no step removes a token network; after a TokenNetworkCreated event its address is
\* known; every known address has exactly one channel-event listener; the listener of a
\* newly known address syncs from the block of the event that made it known, and the
\* sync start block of the listener of an already known address never changes, however
\* often the event is repeated.
C22_RegisteredOnce ==
    [][/\ token_networks \subseteq token_networks'
       /\ last_event'.event = "TokenNetworkCreated" => last_event'.address \in token_networks'
       /\ \A tn \in AllTokenNetworks :
            /\ tn \in token_networks' =>
                   Cardinality(ListenersOf(token_network_listeners', tn)) = 1
            /\ tn \notin token_networks' => ListenersOf(token_network_listeners', tn) = {}
            /\ (tn \notin token_networks /\ tn \in token_networks') =>
                   /\ last_event' = RegistryEvent(tn)
                   /\ \A i \in ListenersOf(token_network_listeners', tn) :
                          token_network_listeners'[i].sync_start_block = block
            /\ tn \in token_networks =>
                   \A i \in ListenersOf(token_network_listeners, tn) :
                       /\ i \in ListenersOf(token_network_listeners', tn)
                       /\ token_network_listeners'[i].sync_start_block =
                              token_network_listeners[i].sync_start_block]_vars

\* both networks are known and the event of the first is repeated in a later block than
\* the one its listener syncs from
C22_Witness ==
    /\ token_networks = AllTokenNetworks
    /\ last_event = RegistryEvent("TN1")
    /\ \E i \in ListenersOf(token_network_listeners, "TN1") :
           token_network_listeners[i].sync_start_block < block


(***************************************************************************)
(* Properties of the dispatchers                                           *)
(***************************************************************************)
HandledEventNames == {"ChannelOpened", "ChannelClosed", "ChannelSettled"}

\* C23: the delivery of a channel event whose name is none of ChannelOpened, ChannelClosed,
\* ChannelSettled, and of a message that is not a MonitorRequest, leaves the open
\* channels, the stored requests, the task list, the token networks and their listeners
\* as they were, with the listeners and the main loop where they were, so that the next
\* events are processed as before.
C23_UnknownDropped ==
    [][/\ \A event \in ChannelEvents :
             (event.event \notin HandledEventNames /\ ChannelEventStep(event))
                 => UNCHANGED serverVars
       /\ \A message \in Messages :
             (message.type # "MonitorRequest" /\ MessageStep(message))
                 => UNCHANGED serverVars]_vars

\* an event of a name without handler was delivered while a request was stored and a
\* task was in the task list
C23_Witness ==
    /\ last_event.event \notin HandledEventNames \cup {"TokenNetworkCreated", "none"}
    /\ task_list # <<>>
    /\ \E c \in Channels : monitor_requests[c] # NoRequest


(***************************************************************************)
(* Properties of the main loop, stop and wait_tasks                        *)
(***************************************************************************)
AllListenersStopped ==
    /\ registry_listener = "stopped"
    /\ \A i \in 1..Len(token_network_listeners) : ~token_network_listeners[i].running

\* C25: once stop has been called the stop flag stays set, the registry listener and
\* every token network listener built so far are stopped, and the main loop exits after
\* the iteration in progress, with or without tasks pending.
C25_Shutdown ==
    /\ [][stop_event => stop_event']_vars
    /\ [](stop_event => AllListenersStopped)
    /\ stop_event ~> (pc = "exited")

\* the loop has exited after stop with a token network listener built and a started task
\* that has not completed
C25_Witness ==
    /\ stop_event
    /\ pc = "exited"
    /\ token_network_listeners # <<>>
    /\ \E i \in 1..Len(task_list) : ~task_list[i].done


(***************************************************************************)
(* Properties of the tick whose signer fails                               *)
(***************************************************************************)
Overdue(db) ==
    {a \in db.scheduled_actions :
        ~a.in_flight /\ a.trigger_block <= db.latest_confirmed_block}

\* the actions that fire at the tick to to_block stay scheduled, not in flight, and
\* nothing is submitted
KeptScheduled(before, after, to_block) ==
    LET folded == Fold(before.ms.db, before.ms.mem.latest_confirmed_block, to_block) IN
    /\ \A a \in Firing(folded, to_block) : a \in Overdue(after.ms.db)
    /\ after.calls = <<>>
    /\ after.all_calls = before.all_calls

\* a tick that commits with a working signer submits every action left over from
\* before whose preconditions hold after the events of the tick, and marks it in flight
Retried(before, after) ==
    LET from == before.ms.db.latest_confirmed_block
        to == after.ms.db.latest_confirmed_block
        folded == Fold(before.ms.db, from, to) IN
    (to > from /\ after.last_failed = NoFailure /\ before.ms.mem = Load(before.ms.db)) =>
        \A a \in Overdue(before.ms.db) :
            (a \in folded.scheduled_actions /\ PreconditionsMet(folded, a)) =>
                /\ \E i \in 1..Len(after.calls) :
                      /\ after.calls[i].kind = a.kind
                      /\ after.calls[i].channel_identifier = a.channel_identifier
                /\ [a EXCEPT !.in_flight = TRUE] \in after.ms.db.scheduled_actions

AcceptedNotStored(channel_id) ==
    {i \in 1..Len(task_list) :
        /\ task_list[i].kind = "StoreMonitorRequest"
        /\ ~task_list[i].done
        /\ task_list[i].monitor_request.channel_identifier = channel_id}

\* C27: when ChannelClosed of an open channel is handled after intake has accepted a
\* request for it, whether or not the store task has run by then, the handler starts a
\* monitoring task for the channel with a request at least as new as the accepted one.
C27_AcceptedRequestMonitored ==
    [][\A event \in ChannelEvents :
          (event.event = "ChannelClosed" /\ ChannelEventStep(event)) =>
              \A i \in AcceptedNotStored(event.channel_identifier) :
                  \E j \in 1..Len(task_list') :
                      /\ task_list'[j].kind = "OnChannelClose"
                      /\ task_list'[j].monitor_request.channel_identifier
                             = event.channel_identifier
                      /\ task_list'[j].monitor_request.nonce
                             >= task_list[i].monitor_request.nonce]_vars


\* the task at position i of before is at position i of after, completed or as it was
KeptAt(before, after, i) ==
    /\ i <= Len(after)
    /\ after[i].kind = before[i].kind
    /\ after[i].monitor_request = before[i].monitor_request
    /\ before[i].done => after[i].done

TaskListSafety ==
    [][/\ \/ \A i \in 1..Len(task_list) : KeptAt(task_list, task_list', i)
          \/ /\ pc = "wait" /\ pc' = "check"
             /\ \E i \in 1..Len(task_list) :
                   /\ task_list[i].done
                   /\ task_list' = RemoveAt(task_list, i)
       /\ (wait_pc = "waiting" /\ wait_pc' = "returned") => task_list = <<>>]_vars

\* C28 as stated: a started task stays in task_list until it has completed and is taken
\* out by the main loop only; wait_tasks returns only on an empty task_list; and as long
\* as stop is not requested, with every started task completing and the loop running, a
\* task_list that is not empty becomes empty and a caller waiting in wait_tasks returns.
C28_TaskListDrains ==
    /\ TaskListSafety
    /\ ([]~stop_event) =>
          /\ (task_list # <<>>) ~> (task_list = <<>>)
          /\ (wait_pc = "waiting") ~> (wait_pc = "returned")

NoTaskStarted == [][Len(task_list') <= Len(task_list)]_vars

\* C28 amended: the same, the task_list becoming empty (for good) and wait_tasks
\* returning being promised only for runs in which from some point on no further task
\* is started.
C28_TaskListDrainsWhenQuiet ==
    /\ TaskListSafety
    /\ (([]~stop_event) /\ <>NoTaskStarted) =>
          /\ <>[](task_list = <<>>)
          /\ (wait_pc = "waiting") ~> (wait_pc = "returned")

\* tasks were started, ran and were taken out by the main loop, which is still running,
\* and wait_tasks has returned on the empty task_list
C28_Witness ==
    /\ wait_pc = "returned"
    /\ ~stop_event
    /\ pc # "exited"
    /\ task_list = <<>>
    /\ monitor_calls # {}


(***************************************************************************)
(* Properties of the ChannelSettled handler                                *)
(***************************************************************************)
\* C29: handling ChannelSettled of a channel for which a request is stored starts one
\* claim task, for that request, and deletes the request; handling the same event again
\* right after starts no task; handling ChannelSettled of a channel for which no request
\* is stored starts no task and leaves the service as it was.
C29_SettledClaimsOnce ==
    [][\A event \in FedEvents :
          (event.event = "ChannelSettled" /\ ChannelEventFedStep(event)) =>
              LET key == <<event.address, event.channel_identifier>>
                  stored == RequestOfIn(monitor_requests, key) IN
              /\ stored # NoRequest =>
                    /\ task_list' = Append(task_list, Task("OnChannelSettle", stored))
                    /\ RequestOfIn(monitor_requests', key) = NoRequest
              /\ stored = NoRequest =>
                    UNCHANGED <<serverVars, monitor_calls, claim_calls>>
              /\ Redelivered(event) => task_list' = task_list]_vars

====
